---- MODULE Spec2Model ----
(***************************************************************************)
(* Model of the Sudoku solver (sudoku_solver_utils.c, sudoku_cell.c,       *)
(* linked_list.c): the elimination method, the recursive backtracking      *)
(* method with its duplicated (board, unknowns) pairs, and the ownership   *)
(* of the heap objects they create (Spec, SpecTerm); the validation of the *)
(* board read_board_input accepts (SpecValidate); an iteration of main's   *)
(* loop, from the board entered to the result printed (SpecMain); and the  *)
(* functions of linked_list.c and sudoku_cell.c under the calls of any     *)
(* user of the modules (SpecList, SpecCell).                               *)
(***************************************************************************)
EXTENDS Integers, Sequences, FiniteSets, TLC

(* ------------------------- program constants ------------------------- *)

GRID_SIZE == 9
X_SIZE == 3
Y_SIZE == 3
GRIDS_IN_ROW_NUM == 3
GRIDS_IN_COL_NUM == 3
SUCCESS_RET == 1
STALEMATE_RET == 0
ERROR_RET == -1

(* ------------------------------ bounds ------------------------------- *)

\* number of positions of FreeCells whose input value is drawn freely
MaxFree == 3
\* an allocation failure inside a list-building loop is drawn among the
\* first MaxFailPos elements of the loop
MaxFailPos == 1

(* --------------------------- linked_list.c --------------------------- *)

\* A Linked_List: its elements front to back, the registered callbacks
\* (by name, "NULL" when none), and the identity of the allocation
\* (0 for a list that is part of a cell record).
list_empty(id) ==
    [id |-> id, front |-> <<>>, value_handler |-> "NULL", sort_sequence |-> "NULL"]

list_value_handler(l, f) == [l EXCEPT !.value_handler = f]

list_sort_sequence(l, f) == [l EXCEPT !.sort_sequence = f]

list_is_empty(l) == l.front = <<>>

list_length(l) == Len(l.front)

\* the comparators a list can register, by name: on integers, or on the
\* key of the values
Compare(f, a, b) ==
    CASE f = "ascending" -> a - b
      [] f = "descending" -> b - a
      [] f = "key_ascending" -> a.key - b.key
      [] f = "key_descending" -> b.key - a.key

\* the comparator branch with the test sort < 0
InsertSortedStrict(l, value) ==
    LET hits == {i \in 1..Len(l.front) :
                    Compare(l.sort_sequence, value, l.front[i]) < 0}
        at == IF hits = {} THEN Len(l.front) + 1
              ELSE CHOOSE i \in hits : \A j \in hits : i <= j
    IN [l EXCEPT !.front = SubSeq(l.front, 1, at - 1) \o <<value>>
                              \o SubSeq(l.front, at, Len(l.front))]

\* comparator branch of list_insert: before the first element e, scanning
\* from the front, with sort_sequence(value, e) <= 0; at the end otherwise
InsertSorted(l, value) ==
    LET hits == {i \in 1..Len(l.front) :
                    Compare(l.sort_sequence, value, l.front[i]) <= 0}
        at == IF hits = {} THEN Len(l.front) + 1
              ELSE CHOOSE i \in hits : \A j \in hits : i <= j
    IN [l EXCEPT !.front = SubSeq(l.front, 1, at - 1) \o <<value>>
                              \o SubSeq(l.front, at, Len(l.front))]

\* insertion behind the last node
list_insert_tail(l, value) ==
    [l EXCEPT !.front = l.front \o <<value>>]

list_insert(l, value) ==
    IF list_is_empty(l) THEN [l EXCEPT !.front = <<value>>]
    ELSE IF l.sort_sequence = "NULL" THEN [l EXCEPT !.front = <<value>> \o l.front]
    ELSE InsertSorted(l, value)

\* defined for 1 <= pos <= list_length(l); NULL otherwise (see InRange)
InRange(l, pos) == pos > 0 /\ pos <= list_length(l)

\* the null pointer
NULL == [null |-> TRUE]

list_inspect(l, pos) == IF InRange(l, pos) THEN l.front[pos] ELSE NULL

\* a removal that takes the last node when pos is past the end
list_remove_clamped(l, pos) ==
    IF pos <= 0 \/ list_is_empty(l) THEN l
    ELSE IF pos > list_length(l)
    THEN [l EXCEPT !.front = SubSeq(l.front, 1, Len(l.front) - 1)]
    ELSE [l EXCEPT !.front = SubSeq(l.front, 1, pos - 1)
                                \o SubSeq(l.front, pos + 1, Len(l.front))]

\* a removal that detaches no node
list_remove_none(l, pos) == l

\* the list after list_remove(l, pos)
list_remove(l, pos) ==
    IF ~InRange(l, pos) THEN l
    ELSE [l EXCEPT !.front = SubSeq(l.front, 1, pos - 1)
                                \o SubSeq(l.front, pos + 1, Len(l.front))]

\* the value list_remove(l, pos) returns: l, or NULL
list_remove_returns(l, pos) ==
    IF InRange(l, pos) THEN [null |-> FALSE, list |-> l.id] ELSE NULL

\* the value handler called on the value of the front node
list_remove_frees_front(l, pos) ==
    IF InRange(l, pos) /\ l.value_handler # "NULL"
    THEN {l.front[1].id} ELSE {}

\* the record list_remove(l, pos) hands to the value handler, if any
list_remove_frees(l, pos) ==
    IF InRange(l, pos) /\ l.value_handler # "NULL"
    THEN {l.front[pos].id} ELSE {}

\* list_destroy that leaves out its final free(l)
list_destroy_no_free(l) ==
    IF l.id = -1 THEN {}
    ELSE UNION {list_remove_frees(l, i) : i \in 1..list_length(l)}

\* what list_destroy(l) frees: the value of every element, through the
\* value handler, and the list itself; nothing when l is NULL
list_destroy(l) ==
    IF l.id = -1 THEN {}
    ELSE UNION {list_remove_frees(l, i) : i \in 1..list_length(l)} \cup {l.id}

(* --------------------------- sudoku_cell.c --------------------------- *)

RECURSIVE InsertValues(_, _, _)
InsertValues(l, i, grid_size) ==
    IF i >= grid_size THEN l
    ELSE InsertValues(list_insert(l, i + 1), i + 1, grid_size)

\* the list of a new record with an ascending comparator registered
get_eligible_values_sorted(grid_size) ==
    InsertValues(list_sort_sequence(
                    list_value_handler(list_empty(0), "eligible_value_destroy"),
                    "ascending"),
                 0, grid_size)

get_eligible_values_new(grid_size) ==
    InsertValues(list_value_handler(list_empty(0), "eligible_value_destroy"),
                 0, grid_size)

cell_create(id, grid, x, y, grid_size) ==
    [id |-> id,
     position |-> [grid |-> grid, x |-> x, y |-> y],
     eligible_values |-> get_eligible_values_new(grid_size)]

cell_grid_pos(c) == c.position.grid
cell_x_pos(c) == c.position.x
cell_y_pos(c) == c.position.y

cell_eligible_values_length(c) == list_length(c.eligible_values)

\* the value read depends on where the record was allocated
cell_inspect_by_address(c, pos) ==
    IF ~InRange(c.eligible_values, pos) THEN -1
    ELSE IF c.id % 3 = 0 THEN list_inspect(c.eligible_values, list_length(c.eligible_values))
    ELSE list_inspect(c.eligible_values, pos)


cell_inspect_eligible_values(c, pos) ==
    IF InRange(c.eligible_values, pos) THEN list_inspect(c.eligible_values, pos)
    ELSE -1

\* position of the first element equal to v, 0 when there is none
FirstPos(seq, v) ==
    IF \E i \in 1..Len(seq) : seq[i] = v
    THEN CHOOSE i \in 1..Len(seq) :
            seq[i] = v /\ \A j \in 1..(i - 1) : seq[j] # v
    ELSE 0

\* the scan-and-remove loop putting back a value it does not find
RemoveFirstOrRestore(l, v) ==
    LET pos == FirstPos(l.front, v) IN
    IF pos = 0 THEN list_insert(l, v) ELSE list_remove(l, pos)

\* the scan-and-remove loop shared by cell_update_eligible_values and
\* set_eligible_values_duplicate: removes the first element equal to v
RemoveFirst(l, v) ==
    LET pos == FirstPos(l.front, v) IN
    IF pos = 0 THEN l ELSE list_remove(l, pos)

cell_update_eligible_values(c, remove_val) ==
    [c EXCEPT !.eligible_values = RemoveFirst(c.eligible_values, remove_val)]

\* removes from the list l, in order, every value of vals from index k on
RECURSIVE RemoveValues(_, _, _)
RemoveValues(l, vals, k) ==
    IF k > Len(vals) THEN l
    ELSE RemoveValues(RemoveFirst(l, vals[k]), vals, k + 1)

\* temp_values: a fresh full list from which every value of the original
\* has been removed; its values are then removed from the new cell
set_eligible_values_duplicate(new_cell, original_cell) ==
    LET grid_size == cell_eligible_values_length(new_cell)
        temp_values == RemoveValues(get_eligible_values_new(grid_size),
                                    original_cell.eligible_values.front, 1)
    IN [new_cell EXCEPT !.eligible_values =
            RemoveValues(new_cell.eligible_values, temp_values.front, 1)]

\* a duplicate that keeps the full eligible set of a new record
cell_duplicate_fresh(id, original_cell, grid_size) ==
    cell_create(id, cell_grid_pos(original_cell), cell_x_pos(original_cell),
                cell_y_pos(original_cell), grid_size)

cell_duplicate(id, original_cell, grid_size) ==
    set_eligible_values_duplicate(
        cell_create(id, cell_grid_pos(original_cell), cell_x_pos(original_cell),
                    cell_y_pos(original_cell), grid_size),
        original_cell)

(* ----------------------- sudoku_solver_utils.c ----------------------- *)

Grids == 0..(GRID_SIZE - 1)
Ys == 0..(Y_SIZE - 1)
Xs == 0..(X_SIZE - 1)
Digits == 1..GRID_SIZE

\* int board[GRID_SIZE][Y_SIZE][X_SIZE] after init_board
init_board == [grid \in Grids |-> [y \in Ys |-> [x \in Xs |-> 0]]]

\* the grid scan with its row loop one short (y < Y_SIZE - 1):
\* only the first two rows of the grid are read
GridScanShort(board, grid_pos) ==
    [k \in 1..(GRID_SIZE - X_SIZE) |->
        board[grid_pos][(k - 1) \div X_SIZE][(k - 1) % X_SIZE]]

\* the 9 values read by the loop of update_constraints_grid, in scan order
GridScan(board, grid_pos) ==
    [k \in 1..GRID_SIZE |->
        board[grid_pos][(k - 1) \div X_SIZE][(k - 1) % X_SIZE]]

\* the 9 values read by the loop of update_constraints_row: grid starts at
\* the first grid of the band and advances every X_SIZE steps
RowScan(board, grid_pos, y_pos) ==
    [k \in 1..GRID_SIZE |->
        board[(grid_pos - (grid_pos % GRIDS_IN_ROW_NUM)) + ((k - 1) \div X_SIZE)]
             [y_pos][(k - 1) % X_SIZE]]

\* the column scan advancing to the next grid instead of the grid below
ColScanNextGrid(board, grid_pos, x_pos) ==
    [k \in 1..GRID_SIZE |->
        board[(grid_pos % Y_SIZE) + ((k - 1) \div Y_SIZE)]
             [(k - 1) % Y_SIZE][x_pos]]

\* the 9 values read by the loop of update_constraints_col: grid starts at
\* the top grid of the stack and advances by 3 every Y_SIZE steps
ColScan(board, grid_pos, x_pos) ==
    [k \in 1..GRID_SIZE |->
        board[(grid_pos % Y_SIZE) + 3 * ((k - 1) \div Y_SIZE)]
             [(k - 1) % Y_SIZE][x_pos]]

\* one scan: every non-zero value read is removed from the cell
RECURSIVE RemoveScan(_, _, _)
RemoveScan(c, scan, k) ==
    IF k > Len(scan) THEN c
    ELSE IF scan[k] # 0
         THEN RemoveScan(cell_update_eligible_values(c, scan[k]), scan, k + 1)
         ELSE RemoveScan(c, scan, k + 1)

update_constraints_grid(board, c, grid_pos) ==
    RemoveScan(c, GridScan(board, grid_pos), 1)

update_constraints_row(board, c, grid_pos, y_pos) ==
    RemoveScan(c, RowScan(board, grid_pos, y_pos), 1)

update_constraints_col(board, c, grid_pos, x_pos) ==
    RemoveScan(c, ColScan(board, grid_pos, x_pos), 1)

update_constraints(board, c, grid_pos, x_pos, y_pos) ==
    update_constraints_col(board,
        update_constraints_row(board,
            update_constraints_grid(board, c, grid_pos),
            grid_pos, y_pos),
        grid_pos, x_pos)

\* no return value yet
NO_RET == 2

\* The loops of solve_elimination_method as a machine over its locals.  One
\* step is one iteration of the for loop, or, at the end of the for loop,
\* the test of the while loop; destroyed lists the ids of the records
\* handed to cell_destroy by list_remove.
EliminationStart(board, unknowns) ==
    [ret |-> NO_RET, board |-> board, unknowns |-> unknowns, i |-> 0,
     unknowns_size |-> 0, is_modified |-> TRUE, destroyed |-> {}]

EliminationDone(st) == st.ret # NO_RET

\* board[grid][x][y] = value
BoardWriteSwapped(board, grid, y, x, value) ==
    [board EXCEPT ![grid][x][y] = value]

\* board[grid][y][x] = value
BoardWrite(board, grid, y, x, value) ==
    [board EXCEPT ![grid][y][x] = value]

\* a commit without i--: the record that follows the removed one is not
\* visited in this pass
EliminationCommitSkips(st, c) ==
    IF cell_eligible_values_length(c) = 0
    THEN [st EXCEPT !.ret = 0, !.unknowns.front[st.i + 1] = c]
    ELSE IF cell_eligible_values_length(c) = 1
    THEN [st EXCEPT
            !.board = BoardWrite(st.board, cell_grid_pos(c), cell_y_pos(c),
                                 cell_x_pos(c), cell_inspect_eligible_values(c, 1)),
            !.unknowns = list_remove(st.unknowns, st.i + 1),
            !.unknowns_size = st.unknowns_size - 1,
            !.i = st.i + 1,
            !.is_modified = TRUE,
            !.destroyed = st.destroyed \cup list_remove_frees(st.unknowns, st.i + 1)]
    ELSE [st EXCEPT !.unknowns.front[st.i + 1] = c, !.i = st.i + 1]

\* an iteration that goes on to the next record when the eligible set of
\* the record has become empty
EliminationCommitKeepsEmpty(st, c) ==
    IF cell_eligible_values_length(c) = 1
    THEN [st EXCEPT
            !.board = BoardWrite(st.board, cell_grid_pos(c), cell_y_pos(c),
                                 cell_x_pos(c), cell_inspect_eligible_values(c, 1)),
            !.unknowns = list_remove(st.unknowns, st.i + 1),
            !.unknowns_size = st.unknowns_size - 1,
            !.is_modified = TRUE,
            !.destroyed = st.destroyed \cup list_remove_frees(st.unknowns, st.i + 1)]
    ELSE [st EXCEPT !.unknowns.front[st.i + 1] = c, !.i = st.i + 1]

\* a commit that does not set is_modified: the pass is not repeated
EliminationCommitOnePass(st, c) ==
    IF cell_eligible_values_length(c) = 0
    THEN [st EXCEPT !.ret = 0, !.unknowns.front[st.i + 1] = c]
    ELSE IF cell_eligible_values_length(c) = 1
    THEN [st EXCEPT
            !.board[cell_grid_pos(c)][cell_y_pos(c)][cell_x_pos(c)] =
                cell_inspect_eligible_values(c, 1),
            !.unknowns = list_remove(st.unknowns, st.i + 1),
            !.unknowns_size = st.unknowns_size - 1,
            !.destroyed = st.destroyed \cup list_remove_frees(st.unknowns, st.i + 1)]
    ELSE [st EXCEPT !.unknowns.front[st.i + 1] = c, !.i = st.i + 1]

\* an iteration that stores the narrowed record and never commits a value
EliminationCommitNever(st, c) ==
    IF cell_eligible_values_length(c) = 0
    THEN [st EXCEPT !.ret = 0, !.unknowns.front[st.i + 1] = c]
    ELSE [st EXCEPT !.unknowns.front[st.i + 1] = c, !.i = st.i + 1]

\* the rest of an iteration of the for loop once update_constraints has
\* brought the record at position i + 1 to c
EliminationCommit(st, c) ==
    IF cell_eligible_values_length(c) = 0
    THEN [st EXCEPT !.ret = 0, !.unknowns.front[st.i + 1] = c]
    ELSE IF cell_eligible_values_length(c) = 1
    THEN [st EXCEPT
            !.board = BoardWrite(st.board, cell_grid_pos(c), cell_y_pos(c),
                                 cell_x_pos(c), cell_inspect_eligible_values(c, 1)),
            !.unknowns = list_remove(st.unknowns, st.i + 1),
            !.unknowns_size = st.unknowns_size - 1,
            !.is_modified = TRUE,
            !.destroyed = st.destroyed \cup list_remove_frees(st.unknowns, st.i + 1)]
    ELSE [st EXCEPT !.unknowns.front[st.i + 1] = c, !.i = st.i + 1]

EliminationStep(st) ==
    IF st.i >= st.unknowns_size
    THEN IF st.is_modified
         THEN [st EXCEPT !.is_modified = FALSE,
                         !.unknowns_size = list_length(st.unknowns),
                         !.i = 0]
         ELSE [st EXCEPT !.ret = SUCCESS_RET]
    ELSE
      LET c == list_inspect(st.unknowns, st.i + 1) IN
      IF cell_eligible_values_length(c) = 0
      THEN [st EXCEPT !.ret = 0]
      ELSE EliminationCommit(st,
              update_constraints(st.board, c, cell_grid_pos(c), cell_x_pos(c),
                                 cell_y_pos(c)))

\* Step applied until Done holds, at most n times
RECURSIVE Iterate(_, _, _, _)
Iterate(Step(_), Done(_), st, n) ==
    IF n = 0 \/ Done(st) THEN st ELSE Iterate(Step, Done, Step(st), n - 1)

\* Step applied until Done holds (evaluated in blocks of 16 * 16 steps)
RECURSIVE While(_, _, _)
While(Step(_), Done(_), st) ==
    IF Done(st) THEN st
    ELSE LET Block(s) == Iterate(Step, Done, s, 16)
         IN While(Step, Done, Iterate(Block, Done, st, 16))

solve_elimination_method(board, unknowns) ==
    While(EliminationStep, EliminationDone, EliminationStart(board, unknowns))

\* the triple loop of empty_unknowns_list, k counting its iterations (grid,
\* then y, then x); the record of the n-th unknown found gets id + n - 1
CollectDone(st) == st.k >= GRID_SIZE * Y_SIZE * X_SIZE

CollectStep(st) ==
    LET grid == st.k \div (Y_SIZE * X_SIZE)
        y == (st.k % (Y_SIZE * X_SIZE)) \div X_SIZE
        x == st.k % X_SIZE
    IN IF st.board[grid][y][x] = 0
       THEN [st EXCEPT
               !.unknowns = list_insert(st.unknowns,
                                cell_create(st.id, grid, x, y, GRID_SIZE)),
               !.k = st.k + 1, !.id = st.id + 1]
       ELSE [st EXCEPT !.k = st.k + 1]

\* the list gets id list_id, its records list_id + 1, list_id + 2, ...
empty_unknowns_list(board, list_id) ==
    While(CollectStep, CollectDone,
          [board |-> board,
           unknowns |-> list_value_handler(list_empty(list_id), "cell_destroy"),
           k |-> 0, id |-> list_id + 1]).unknowns

duplicate_board(original_board) ==
    [grid \in Grids |-> [y \in Ys |-> [x \in Xs |-> original_board[grid][y][x]]]]

\* the loop of duplicate_unknown_list
DuplicateDone(st) == st.i >= list_length(st.unknowns)

\* the loop inserting the record of the original list itself
DuplicateStepShallow(st) ==
    [st EXCEPT
        !.list_new = list_insert(st.list_new, list_inspect(st.unknowns, st.i + 1)),
        !.i = st.i + 1, !.id = st.id + 1]

DuplicateStep(st) ==
    [st EXCEPT
        !.list_new = list_insert(st.list_new,
                        cell_duplicate(st.id, list_inspect(st.unknowns, st.i + 1),
                                       GRID_SIZE)),
        !.i = st.i + 1, !.id = st.id + 1]

\* the list gets id list_id, its records list_id + 1, list_id + 2, ...
duplicate_unknown_list(unknowns, list_id) ==
    While(DuplicateStep, DuplicateDone,
          [unknowns |-> unknowns,
           list_new |-> list_value_handler(list_empty(list_id), "cell_destroy"),
           i |-> 0, id |-> list_id + 1]).list_new

\* the allocations a sequence of cell records holds: the list and its records
ListIds(l) == {l.id} \cup {l.front[i].id : i \in 1..Len(l.front)}


(* ------------------------------ inputs ------------------------------- *)

\* a solved board, written row by row
BaseRows ==
    << <<9, 8, 7, 6, 4, 5, 3, 1, 2>>,
       <<6, 5, 4, 3, 1, 2, 9, 7, 8>>,
       <<3, 2, 1, 9, 7, 8, 6, 4, 5>>,
       <<7, 9, 8, 2, 6, 1, 5, 3, 4>>,
       <<4, 3, 5, 8, 9, 7, 2, 6, 1>>,
       <<1, 6, 2, 5, 3, 4, 8, 9, 7>>,
       <<5, 4, 6, 7, 8, 9, 1, 2, 3>>,
       <<8, 7, 9, 1, 2, 3, 4, 5, 6>>,
       <<2, 1, 3, 4, 5, 6, 7, 8, 9>> >>

\* board[grid][y][x] holds row 3 * (grid / 3) + y, column 3 * (grid % 3) + x
FromRows(rows) ==
    [grid \in Grids |-> [y \in Ys |-> [x \in Xs |->
        rows[GRIDS_IN_ROW_NUM * (grid \div GRIDS_IN_ROW_NUM) + y + 1]
            [X_SIZE * (grid % GRIDS_IN_ROW_NUM) + x + 1]]]]

Base == FromRows(BaseRows)

\* the grids emptied in the sparse inputs
ZeroGrids == {1, 4, 7}

\* positions <<grid, y, x>> whose input value is drawn freely
FreeCells == << <<7, 2, 2>>, <<4, 2, 2>>, <<4, 0, 0>>, <<1, 0, 1>>, <<1, 1, 0>> >>

FreeIdx == 1..MaxFree

Sparse == [grid \in Grids |-> IF grid \in ZeroGrids THEN init_board[grid] ELSE Base[grid]]

IdxOf(grid, y, x) ==
    {i \in FreeIdx : FreeCells[i] = <<grid, y, x>>}

\* the board b with the free positions overwritten by vals
WithFree(b, vals) ==
    [grid \in Grids |-> [y \in Ys |-> [x \in Xs |->
        IF IdxOf(grid, y, x) = {} THEN b[grid][y][x]
        ELSE vals[CHOOSE i \in IdxOf(grid, y, x) : TRUE]]]]

\* the value at row r, column c of the 9 x 9 board (both from 0)
At(b, r, c) == b[3 * (r \div 3) + (c \div 3)][r % 3][c % 3]

Lines == 0..8

\* the board b with v at row r, column c
Put(b, r, c, v) ==
    [b EXCEPT ![3 * (r \div 3) + (c \div 3)][r % 3][c % 3] = v]

\* the digit v occurs in none of the row, the column and the box of <<r, c>>
Fits(b, r, c, v) ==
    \A k \in Lines :
        /\ At(b, r, k) # v
        /\ At(b, k, c) # v
        /\ At(b, 3 * (r \div 3) + (k \div 3), 3 * (c \div 3) + (k % 3)) # v

\* the 27 scopes of the puzzle, each a set of 9 <<row, column>> positions
BoxScope(g) == {<<3 * (g \div 3) + i, 3 * (g % 3) + j>> : i \in 0..2, j \in 0..2}
RowScope(r) == {<<r, c>> : c \in Lines}
ColScope(c) == {<<r, c>> : r \in Lines}
AllScopes ==
    {BoxScope(g) : g \in Lines} \cup {RowScope(r) : r \in Lines}
        \cup {ColScope(c) : c \in Lines}

\* no non-zero digit occurs twice in a box, row or column
ScopeConsistent(b) ==
    \A s \in AllScopes : \A p, q \in s :
        (p # q /\ At(b, p[1], p[2]) # 0) => At(b, p[1], p[2]) # At(b, q[1], q[2])

IsFull(b) == \A r \in Lines, c \in Lines : At(b, r, c) # 0

\* each scope holds each digit exactly once
IsSolution(b) ==
    \A s \in AllScopes : \A d \in 1..9 :
        Cardinality({p \in s : At(b, p[1], p[2]) = d}) = 1

\* the value at each free position occurs nowhere else in the row, the
\* column and the box of the position
FreeConsistent(b) ==
    \A i \in FreeIdx :
        LET grid == FreeCells[i][1]
            y == FreeCells[i][2]
            x == FreeCells[i][3]
            r == 3 * (grid \div 3) + y
            c == 3 * (grid % 3) + x
        IN b[grid][y][x] = 0 \/ Fits(Put(b, r, c, 0), r, c, b[grid][y][x])

\* sparse inputs: three empty grids, free positions hold any value that
\* keeps the board scope-consistent
SparseInputs ==
    {b \in {WithFree(Sparse, vals) : vals \in [FreeIdx -> 0..GRID_SIZE]} :
        FreeConsistent(b)}

\* dense inputs: the solved board with a subset of the free positions
\* emptied
DenseInputs ==
    {WithFree(Base, vals) :
        vals \in {v \in [FreeIdx -> 0..GRID_SIZE] :
                    \A i \in FreeIdx :
                        v[i] \in {0, Base[FreeCells[i][1]][FreeCells[i][2]][FreeCells[i][3]]}}}

\* two puzzles cut from the solved board, with unknowns in every grid
PuzzleRows1 ==
    << <<0, 0, 7, 0, 4, 5, 0, 1, 0>>,
       <<6, 5, 4, 0, 0, 0, 0, 7, 0>>,
       <<0, 2, 0, 9, 0, 8, 0, 4, 0>>,
       <<0, 0, 0, 2, 0, 0, 0, 0, 0>>,
       <<4, 0, 5, 0, 9, 0, 2, 0, 1>>,
       <<0, 0, 2, 0, 0, 4, 0, 9, 0>>,
       <<0, 0, 6, 0, 0, 0, 0, 2, 0>>,
       <<0, 0, 0, 0, 2, 3, 4, 5, 0>>,
       <<0, 0, 0, 0, 5, 6, 7, 0, 9>> >>

PuzzleRows2 ==
    << <<9, 0, 0, 6, 4, 5, 0, 0, 0>>,
       <<0, 0, 4, 0, 0, 0, 9, 0, 8>>,
       <<3, 0, 0, 0, 7, 0, 0, 0, 0>>,
       <<0, 0, 8, 0, 0, 0, 5, 0, 0>>,
       <<4, 0, 0, 8, 9, 0, 0, 0, 0>>,
       <<1, 0, 0, 5, 3, 0, 8, 0, 7>>,
       <<5, 4, 6, 0, 0, 9, 1, 2, 3>>,
       <<8, 7, 9, 0, 0, 0, 0, 5, 0>>,
       <<0, 1, 0, 0, 0, 0, 0, 0, 0>> >>

PuzzleInputs == {FromRows(PuzzleRows1), FromRows(PuzzleRows2)}

\* the solved board with one position emptied
OneZeroInputs == {Put(Base, r, c, 0) : r \in Lines, c \in Lines}

Inputs == SparseInputs \cup DenseInputs \cup PuzzleInputs \cup OneZeroInputs

(* ------------------------------- state ------------------------------- *)

VARIABLES
    input,          \* the board handed to solve_sudoku by main
    board,          \* main's board, mutated in place by solve_sudoku
    unknowns,       \* solve_sudoku's list
    pc,             \* position in solve_sudoku: "setup", "eliminate",
                    \* "backtrack", "done" (returned), "error" (run_time_error)
    stack,          \* the live frames of solve_backtrack_method, outermost first
    elret,          \* value returned by the top-level solve_elimination_method
    btret,          \* value returned by the top-level solve_backtrack_method
    elim_board,     \* main's board when the top-level elimination returned
    live,           \* ids of the lists and cell records allocated and not freed
    next_id,        \* last id handed out
    double_destroy, \* some list or cell record was destroyed when not live
    alloc_failed,   \* an allocation has failed during this solve
    run,            \* iteration of main's do-while loop
    first_board,    \* main's board when the first solve_sudoku returned
    lh,             \* a caller of linked_list.c: its list and what it observed
    ch,             \* a caller of sudoku_cell.c: its two records and their lists
    vh              \* a caller of validate_board: its board and the value returned

\* the state of the callers of the library functions, used by SpecList,
\* SpecCell and SpecValidate; the solver leaves it alone
unit_vars == <<lh, ch, vh>>

solver_vars == <<input, board, unknowns, pc, stack, elret, btret, elim_board,
                 live, next_id, double_destroy, alloc_failed, run, first_board>>

vars == <<input, board, unknowns, pc, stack, elret, btret, elim_board, live,
          next_id, double_destroy, alloc_failed, run, first_board, lh, ch, vh>>

\* iterations of main's loop that are modelled
Runs == 2

\* a pointer that holds no list / no cell record
NULL_LIST == list_empty(-1)
NULL_CELL == [id |-> -1, position |-> [grid |-> 0, x |-> 0, y |-> 0],
              eligible_values |-> list_empty(0)]

\* a frame of solve_backtrack_method at its first statement; its locals are
\* not read before the code assigns them
NewFrame ==
    [pc |-> "entry", cell |-> NULL_CELL, unknowns_duplicate |-> NULL_LIST,
     board_duplicate |-> init_board, val |-> 0, ret |-> NO_RET]

Depth == Len(stack)

\* the arguments of the frame at depth d: the caller's pair
BoardOf(d) == IF d = 1 THEN board ELSE stack[d - 1].board_duplicate
UnknownsOf(d) == IF d = 1 THEN unknowns ELSE stack[d - 1].unknowns_duplicate

\* the allocation outcomes of a list-building loop over n elements: all
\* succeed, or the list, the record of element at, or its node fails
BuildOutcomes(n, may_fail) ==
    {[kind |-> "ok", at |-> 0]}
      \cup (IF may_fail
            THEN {[kind |-> "list_empty", at |-> 0]}
                   \cup {[kind |-> k, at |-> i] :
                            k \in {"cell", "list_insert"},
                            i \in {j \in 1..MaxFailPos : j <= n}}
            ELSE {})

\* nothing calls the library functions outside the solver
UnitsIdle == lh = "idle" /\ ch = "idle" /\ vh = "idle"

NumUnknown(b) ==
    Cardinality({<<grid, y, x>> \in Grids \X Ys \X Xs : b[grid][y][x] = 0})

Init ==
    /\ input \in Inputs
    /\ UnitsIdle
    /\ board = input
    /\ unknowns = NULL_LIST
    /\ pc = "setup"
    /\ stack = <<>>
    /\ elret = NO_RET
    /\ btret = NO_RET
    /\ elim_board = input
    /\ live = {}
    /\ next_id = 0
    /\ double_destroy = FALSE
    /\ alloc_failed = FALSE
    /\ run = 1
    /\ first_board = input

(* ------------------------------ actions ------------------------------ *)

\* solve_sudoku up to the call of solve_elimination_method
SolveSetup(may_fail) ==
    /\ UNCHANGED unit_vars
    /\ pc = "setup"
    /\ \E out \in BuildOutcomes(NumUnknown(board), may_fail) :
         IF out.kind # "ok"
         THEN \* empty_unknowns_list frees what it built and returns NULL
              /\ pc' = "error"
              /\ alloc_failed' = TRUE
              /\ first_board' = first_board
              /\ next_id' = next_id + (IF out.kind = "list_empty" THEN 0
                                       ELSE IF out.kind = "cell" THEN out.at
                                       ELSE out.at + 1)
              /\ UNCHANGED <<unknowns, live>>
         ELSE \E l \in {empty_unknowns_list(board, next_id + 1)} :
              /\ next_id' = next_id + 1 + list_length(l)
              /\ alloc_failed' = alloc_failed
              /\ unknowns' = l
              /\ IF list_is_empty(l)
                 THEN \* list_destroy(unknowns); return
                      /\ pc' = "done"
                      /\ live' = live
                      /\ first_board' = IF run = 1 THEN board ELSE first_board
                 ELSE /\ pc' = "eliminate"
                      /\ live' = live \cup ListIds(l)
                      /\ first_board' = first_board
    /\ UNCHANGED <<input, board, stack, elret, btret, elim_board,
                   double_destroy, run>>

\* the top-level solve_elimination_method and the call of
\* solve_backtrack_method
SolveEliminate ==
    /\ UNCHANGED unit_vars
    /\ pc = "eliminate"
    /\ \E e \in {solve_elimination_method(board, unknowns)} :
       LET gone == e.destroyed
       IN /\ board' = e.board
          /\ unknowns' = e.unknowns
          /\ elret' = e.ret
          /\ elim_board' = e.board
          /\ IF e.ret = ERROR_RET
             THEN \* list_destroy(unknowns); run_time_error
                  /\ pc' = "error"
                  /\ stack' = stack
                  /\ live' = (live \ gone) \ list_destroy(e.unknowns)
                  /\ double_destroy' =
                        (double_destroy
                           \/ ~((gone \cup list_destroy(e.unknowns)) \subseteq live))
             ELSE /\ pc' = "backtrack"
                  /\ stack' = <<NewFrame>>
                  /\ live' = live \ gone
                  /\ double_destroy' = (double_destroy \/ ~(gone \subseteq live))
    /\ UNCHANGED <<input, btret, next_id, alloc_failed, run, first_board>>

\* the frames after the sequence of the frame at depth d became l (the
\* sequence of an inner frame is its caller's unknowns_duplicate)
SetUnknownsOf(stk, d, l) ==
    IF d = 1 THEN stk ELSE [stk EXCEPT ![d - 1].unknowns_duplicate = l]

SetBoardOf(stk, d, b) ==
    IF d = 1 THEN stk ELSE [stk EXCEPT ![d - 1].board_duplicate = b]

\* outcome of one allocating call: TRUE when it succeeds
AllocOutcomes(may_fail) == IF may_fail THEN BOOLEAN ELSE {TRUE}

\* solve_backtrack_method from its first statement to the while loop
BacktrackEnter(may_fail) ==
    /\ UNCHANGED unit_vars
    /\ pc = "backtrack"
    /\ Depth >= 1
    /\ stack[Depth].pc = "entry"
    /\ LET d == Depth
           l == UnknownsOf(d)
       IN
       IF list_is_empty(l)
       THEN /\ stack' = [stack EXCEPT ![d].pc = "ret", ![d].ret = SUCCESS_RET]
            /\ UNCHANGED <<unknowns, live, next_id, double_destroy, alloc_failed>>
       ELSE
         LET temp_cell == list_inspect(l, 1) IN
         IF cell_eligible_values_length(temp_cell) = 0
         THEN /\ stack' = [stack EXCEPT ![d].pc = "ret", ![d].ret = 0]
              /\ UNCHANGED <<unknowns, live, next_id, double_destroy, alloc_failed>>
         ELSE
           \E ok \in AllocOutcomes(may_fail) :
             IF ~ok
             THEN \* cell_duplicate returns NULL
                  /\ stack' = [stack EXCEPT ![d].pc = "ret", ![d].ret = ERROR_RET]
                  /\ alloc_failed' = TRUE
                  /\ UNCHANGED <<unknowns, live, next_id, double_destroy>>
             ELSE
               LET cell == cell_duplicate(next_id + 1, temp_cell, GRID_SIZE)
                   rest == list_remove(l, 1)
                   gone == list_remove_frees(l, 1)
               IN /\ stack' = SetUnknownsOf(
                                 [stack EXCEPT ![d].pc = "loop", ![d].cell = cell],
                                 d, rest)
                  /\ unknowns' = IF d = 1 THEN rest ELSE unknowns
                  /\ next_id' = next_id + 1
                  /\ live' = (live \cup {cell.id}) \ gone
                  /\ double_destroy' = (double_destroy \/ ~(gone \subseteq live))
                  /\ alloc_failed' = alloc_failed
    /\ UNCHANGED <<input, board, pc, elret, btret, elim_board, run, first_board>>

\* one iteration of the while loop of solve_backtrack_method, up to the
\* recursive call (elimination succeeded) or the end of the iteration
BacktrackTrial(may_fail) ==
    /\ UNCHANGED unit_vars
    /\ pc = "backtrack"
    /\ Depth >= 1
    /\ stack[Depth].pc = "loop"
    /\ cell_eligible_values_length(stack[Depth].cell) > 0
    /\ LET d == Depth
           f == stack[d]
           l == UnknownsOf(d)
       IN
       \E out \in BuildOutcomes(list_length(l), may_fail) :
         IF out.kind # "ok"
         THEN \* duplicate_unknown_list returns NULL: it has destroyed
              \* list_new, but not the record whose list_insert failed
              LET leaked == IF out.kind = "list_insert"
                            THEN {next_id + 1 + out.at} ELSE {}
                  gone == {f.cell.id}
              IN /\ stack' = [stack EXCEPT ![d].pc = "ret", ![d].ret = ERROR_RET]
                 /\ next_id' = next_id + (IF out.kind = "list_empty" THEN 0
                                          ELSE IF out.kind = "cell" THEN out.at
                                          ELSE out.at + 1)
                 /\ live' = (live \cup leaked) \ gone
                 /\ double_destroy' = (double_destroy \/ ~(gone \subseteq live))
                 /\ alloc_failed' = TRUE
         ELSE
           \E unknowns_duplicate \in {duplicate_unknown_list(l, next_id + 1)} :
           LET made == ListIds(unknowns_duplicate)
               val == cell_inspect_eligible_values(f.cell, 1)
               cell == cell_update_eligible_values(f.cell, val)
               board_duplicate ==
                   BoardWrite(duplicate_board(BoardOf(d)), cell_grid_pos(cell),
                              cell_y_pos(cell), cell_x_pos(cell), val)
           IN
           \E e \in {solve_elimination_method(board_duplicate, unknowns_duplicate)} :
           LET removed == e.destroyed
               g == [f EXCEPT !.cell = cell, !.val = val,
                              !.unknowns_duplicate = e.unknowns,
                              !.board_duplicate = e.board]
           IN /\ next_id' = next_id + Cardinality(made)
              /\ alloc_failed' = alloc_failed
              /\ IF e.ret = ERROR_RET
                 THEN /\ stack' = [stack EXCEPT ![d] = [g EXCEPT !.pc = "ret",
                                                                 !.ret = ERROR_RET]]
                      /\ live' = (live \cup made) \ removed
                      /\ double_destroy' = double_destroy
                 ELSE IF e.ret = SUCCESS_RET
                 THEN /\ stack' = Append([stack EXCEPT ![d] = [g EXCEPT !.pc = "call"]],
                                         NewFrame)
                      /\ live' = (live \cup made) \ removed
                      /\ double_destroy' = double_destroy
                 ELSE \* list_destroy(unknowns_duplicate)
                      /\ stack' = [stack EXCEPT ![d] = g]
                      /\ live' = ((live \cup made) \ removed)
                                    \ list_destroy(e.unknowns)
                      /\ double_destroy' = double_destroy
    /\ UNCHANGED <<input, board, unknowns, pc, elret, btret, elim_board, run,
                   first_board>>

\* the while loop ends and the frame returns SUCCESS_RET
BacktrackExhaustedSolved ==
    /\ UNCHANGED unit_vars
    /\ pc = "backtrack"
    /\ Depth >= 1
    /\ stack[Depth].pc = "loop"
    /\ cell_eligible_values_length(stack[Depth].cell) = 0
    /\ LET gone == {stack[Depth].cell.id} IN
         /\ live' = live \ gone
         /\ double_destroy' = (double_destroy \/ ~(gone \subseteq live))
    /\ stack' = [stack EXCEPT ![Depth].pc = "ret", ![Depth].ret = SUCCESS_RET]
    /\ UNCHANGED <<input, board, unknowns, pc, elret, btret, elim_board,
                   next_id, alloc_failed, run, first_board>>

\* the while loop of solve_backtrack_method ends: no eligible value is left
BacktrackExhausted ==
    /\ UNCHANGED unit_vars
    /\ pc = "backtrack"
    /\ Depth >= 1
    /\ stack[Depth].pc = "loop"
    /\ cell_eligible_values_length(stack[Depth].cell) = 0
    /\ LET gone == {stack[Depth].cell.id} IN
         /\ live' = live \ gone
         /\ double_destroy' = (double_destroy \/ ~(gone \subseteq live))
    /\ stack' = [stack EXCEPT ![Depth].pc = "ret", ![Depth].ret = STALEMATE_RET]
    /\ UNCHANGED <<input, board, unknowns, pc, elret, btret, elim_board,
                   next_id, alloc_failed, run, first_board>>

\* the error test of the recursive call's value left out
BranchOnReturnNoError(r) ==
    IF r = SUCCESS_RET THEN "solved" ELSE "next"

\* every value other than SUCCESS_RET returned as an error
BranchOnReturnGiveUp(r) ==
    IF r = SUCCESS_RET THEN "solved" ELSE "error"

\* what a frame does with the value btret of its recursive call: return
\* it without cleanup, copy the board back and return it, or go on
BranchOnReturn(r) ==
    IF r = ERROR_RET THEN "error"
    ELSE IF r = SUCCESS_RET THEN "solved"
    ELSE "next"

\* the caller's board with the copy-back placed before the test of btret
BoardAfterReturnAlways(r, caller_board, board_duplicate) ==
    duplicate_board(board_duplicate)

\* the caller's board after the recursive call returned r: board_duplicate
\* is copied into it only when r is SUCCESS_RET
BoardAfterReturn(r, caller_board, board_duplicate) ==
    IF r = SUCCESS_RET THEN duplicate_board(board_duplicate) ELSE caller_board

\* the recursive call returns into the loop of the calling frame
BacktrackReturn ==
    /\ UNCHANGED unit_vars
    /\ pc = "backtrack"
    /\ Depth >= 2
    /\ stack[Depth].pc = "ret"
    /\ LET d == Depth - 1
           f == stack[d]
           r == stack[Depth].ret
           popped == SubSeq(stack, 1, d)
           b == BoardAfterReturn(r, BoardOf(d), f.board_duplicate)
       IN
       IF BranchOnReturn(r) = "error"
       THEN \* return ERROR_RET
            /\ stack' = [popped EXCEPT ![d].pc = "ret", ![d].ret = ERROR_RET]
            /\ UNCHANGED <<board, live, double_destroy>>
       ELSE IF BranchOnReturn(r) = "solved"
       THEN \* duplicate_board(board, board_duplicate); list_destroy; cell_destroy
            LET gone == list_destroy(f.unknowns_duplicate) \cup {f.cell.id} IN
            /\ stack' = SetBoardOf([popped EXCEPT ![d].pc = "ret",
                                                  ![d].ret = SUCCESS_RET],
                                   d, b)
            /\ board' = IF d = 1 THEN b ELSE board
            /\ live' = live \ gone
            /\ double_destroy' = (double_destroy \/ ~(gone \subseteq live))
       ELSE \* list_destroy(unknowns_duplicate) and the next iteration
            LET gone == list_destroy(f.unknowns_duplicate) IN
            /\ stack' = SetBoardOf([popped EXCEPT ![d].pc = "loop"], d, b)
            /\ board' = IF d = 1 THEN b ELSE board
            /\ live' = live \ gone
            /\ double_destroy' = (double_destroy \/ ~(gone \subseteq live))
    /\ UNCHANGED <<input, unknowns, pc, elret, btret, elim_board, next_id,
                   alloc_failed, run, first_board>>

\* solve_sudoku after the top-level solve_backtrack_method returned
SolveFinish ==
    /\ UNCHANGED unit_vars
    /\ pc = "backtrack"
    /\ Depth = 1
    /\ stack[1].pc = "ret"
    /\ btret' = stack[1].ret
    /\ stack' = <<>>
    /\ LET gone == list_destroy(unknowns) IN
         /\ live' = live \ gone
         /\ double_destroy' = (double_destroy \/ ~(gone \subseteq live))
    /\ pc' = IF stack[1].ret = ERROR_RET THEN "error" ELSE "done"
    /\ first_board' = IF run = 1 THEN board ELSE first_board
    /\ UNCHANGED <<input, board, unknowns, elret, elim_board, next_id,
                   alloc_failed, run>>

\* main's loop: the user plays again and enters the same board
PlayAgain ==
    /\ UNCHANGED unit_vars
    /\ pc = "done"
    /\ run < Runs
    /\ run' = run + 1
    /\ board' = input
    /\ pc' = "setup"
    /\ elret' = NO_RET
    /\ btret' = NO_RET
    /\ elim_board' = input
    /\ UNCHANGED <<input, unknowns, stack, live, next_id, double_destroy,
                   alloc_failed, first_board>>

Next ==
    \/ SolveSetup(TRUE)
    \/ SolveEliminate
    \/ BacktrackEnter(TRUE)
    \/ BacktrackTrial(TRUE)
    \/ BacktrackExhausted
    \/ BacktrackReturn
    \/ SolveFinish
    \/ PlayAgain

Spec == Init /\ [][Next]_vars

\* inputs with a digit twice in the first row of grid 0
InconsistentInputs ==
    {[b EXCEPT ![0][0][0] = b[0][0][1]] : b \in DenseInputs \cup PuzzleInputs}

\* boards that hold a digit twice in a row, a column and a box, which
\* validate_board(board, false) accepts: the solved board with 7 written
\* over the two 8 that share a row or a column with the first position, and
\* that position emptied, alone or with its neighbour
TwiceBoard == Put(Put(Base, 0, 1, 7), 7, 0, 7)

TwiceInputs == {Put(TwiceBoard, 0, 0, 0), Put(Put(TwiceBoard, 0, 0, 0), 0, 2, 0)}

\* one solve of any input, the fully empty board included, every
\* allocation succeeding
InitAny ==
    /\ input \in Inputs \cup InconsistentInputs \cup TwiceInputs \cup {init_board}
    /\ UnitsIdle
    /\ board = input
    /\ unknowns = NULL_LIST
    /\ pc = "setup"
    /\ stack = <<>>
    /\ elret = NO_RET
    /\ btret = NO_RET
    /\ elim_board = input
    /\ live = {}
    /\ next_id = 0
    /\ double_destroy = FALSE
    /\ alloc_failed = FALSE
    /\ run = 1
    /\ first_board = input

NextSolve ==
    \/ SolveSetup(FALSE)
    \/ SolveEliminate
    \/ BacktrackEnter(FALSE)
    \/ BacktrackTrial(FALSE)
    \/ BacktrackExhausted
    \/ BacktrackReturn
    \/ SolveFinish

\* solve_sudoku has returned or has called run_time_error
Halted == pc \in {"done", "error"}

\* the guards of the actions of NextSolve: one of them holds
StepEnabled ==
    \/ pc \in {"setup", "eliminate"}
    \/ /\ pc = "backtrack"
       /\ Depth >= 1
       /\ stack[Depth].pc \in {"entry", "loop", "ret"}

\* The solver is sequential code: a step that can be taken is taken.  This
\* is WF_vars(NextSolve) with ENABLED <<NextSolve>>_vars written out as
\* ~Halted.
Fairness == []<>Halted \/ []<><<NextSolve>>_vars

SpecTerm == InitAny /\ [][NextSolve]_vars /\ Fairness

(* ----------------- validate_board and read_board_input --------------- *)

\* counter[k] after the counting loop of checks_repeating_digits: it starts
\* at -1 and is incremented for every occurrence of the digit k + 1
Counter(digits, k) ==
    -1 + Cardinality({j \in 1..GRID_SIZE : digits[j] = k + 1})

checks_repeating_digits(digits) ==
    \E k \in 0..(GRID_SIZE - 1) : Counter(digits, k) > 1

\* digits[] as filled by check_each_grid for one grid
GridDigits(b, grid) ==
    [i \in 1..GRID_SIZE |-> b[grid][(i - 1) \div X_SIZE][(i - 1) % X_SIZE]]

\* digits[] as filled by check_each_row for one row: start_grid advances by
\* GRIDS_IN_ROW_NUM every X_SIZE rows, y restarts at 0
RowDigits(b, row) ==
    [i \in 1..GRID_SIZE |->
        b[GRIDS_IN_ROW_NUM * (row \div X_SIZE) + ((i - 1) \div X_SIZE)]
         [row % X_SIZE][(i - 1) % X_SIZE]]

\* digits[] as filled by check_each_column for one column: start_grid
\* advances by 1 every Y_SIZE columns, x restarts at 0, grid advances by
\* GRIDS_IN_ROW_NUM
ColDigits(b, col) ==
    [i \in 1..GRID_SIZE |->
        b[(col \div Y_SIZE) + GRIDS_IN_ROW_NUM * ((i - 1) \div X_SIZE)]
         [(i - 1) % X_SIZE][col % Y_SIZE]]

check_each_grid(b) ==
    \A grid \in 0..(GRID_SIZE - 1) : ~checks_repeating_digits(GridDigits(b, grid))

check_each_row(b) ==
    \A row \in 0..(GRID_SIZE - 1) : ~checks_repeating_digits(RowDigits(b, row))

check_each_column(b) ==
    \A col \in 0..(GRID_SIZE - 1) : ~checks_repeating_digits(ColDigits(b, col))

validate_board(b, solved) ==
    IF ~(check_each_grid(b) /\ check_each_row(b) /\ check_each_column(b))
    THEN FALSE
    ELSE IF solved
    THEN \A grid \in Grids, y \in Ys, x \in Xs : b[grid][y][x] # 0
    ELSE TRUE

\* positions <<row, column>> at which the probe boards hold a digit
ProbeCells ==
    {<<0, 0>>, <<0, 1>>, <<0, 4>>, <<0, 8>>, <<1, 1>>, <<4, 0>>, <<8, 0>>}

\* a probe board holds one digit at up to MaxProbe positions
MaxProbe == 3

ProbeBoard(cells, v) ==
    [grid \in Grids |-> [y \in Ys |-> [x \in Xs |->
        IF <<GRIDS_IN_ROW_NUM * (grid \div GRIDS_IN_ROW_NUM) + y,
             X_SIZE * (grid % GRIDS_IN_ROW_NUM) + x>> \in cells
        THEN v ELSE 0]]]

ProbeInputs ==
    {ProbeBoard(cells, v) :
        cells \in {c \in SUBSET ProbeCells : Cardinality(c) <= MaxProbe},
        v \in {1, GRID_SIZE}}

\* the boards request_and_manage_user_input can leave in board
EnteredBoards ==
    ProbeInputs \cup DenseInputs \cup PuzzleInputs \cup InconsistentInputs
        \cup {Base, init_board}

\* the solver does not run
SolverIdle ==
    /\ input = init_board
    /\ board = init_board
    /\ unknowns = NULL_LIST
    /\ pc = "idle"
    /\ stack = <<>>
    /\ elret = NO_RET
    /\ btret = NO_RET
    /\ elim_board = init_board
    /\ live = {}
    /\ next_id = 0
    /\ double_destroy = FALSE
    /\ alloc_failed = FALSE
    /\ run = 1
    /\ first_board = init_board

\* read_board_input after request_and_manage_user_input has filled board
InitValidate ==
    /\ SolverIdle
    /\ lh = "idle"
    /\ ch = "idle"
    /\ vh \in [pc : {"request"}, board : EnteredBoards, valid : {FALSE},
               found : {FALSE}]

\* the test of the inner loop of read_board_input
ReadValidate ==
    /\ vh.pc = "request"
    /\ vh' = [vh EXCEPT !.pc = "validated",
                        !.valid = validate_board(vh.board, FALSE)]
    /\ UNCHANGED <<solver_vars, lh, ch>>

\* the board was refused, or the user did not confirm it: the board is
\* entered again
ReadAgain ==
    /\ vh.pc = "validated"
    /\ \E b \in EnteredBoards :
         vh' = [vh EXCEPT !.pc = "request", !.board = b, !.valid = FALSE]
    /\ UNCHANGED <<solver_vars, lh, ch>>

\* the board passed validate_board and the user confirms it
ReadConfirm ==
    /\ vh.pc = "validated"
    /\ vh.valid
    /\ vh' = [vh EXCEPT !.pc = "returned"]
    /\ UNCHANGED <<solver_vars, lh, ch>>

\* print_result_func: validate_board(board, true) on main's board
PrintResult ==
    /\ vh.pc = "returned"
    /\ vh' = [vh EXCEPT !.pc = "printed",
                        !.found = validate_board(vh.board, TRUE)]
    /\ UNCHANGED <<solver_vars, lh, ch>>

NextValidate ==
    \/ ReadValidate
    \/ ReadAgain
    \/ ReadConfirm
    \/ PrintResult

SpecValidate == InitValidate /\ [][NextValidate]_vars

(* ----------------------- a caller of linked_list.c -------------------- *)

\* lh holds the caller's list, the values it has inserted (in the order of
\* the calls; a value is a record with the identity id of its allocation and
\* the key the comparators read), the ids the value handler was called on
\* together with the id of the list once it is freed (handled), whether the
\* handler was called on an id a second time (twice), the number of
\* removals done, and the last call with the value it returned.

\* calls of list_insert the caller makes
MaxInserts == 3

\* the keys of the values the caller inserts
MaxKey == 2

\* positions the caller passes to list_inspect and list_remove
Positions == (0 - 1)..(MaxInserts + 1)

\* list_empty, then list_value_handler and list_sort_sequence if the caller
\* registers a handler or a comparator
InitList ==
    /\ SolverIdle
    /\ ch = "idle"
    /\ vh = "idle"
    /\ \E handler \in {"NULL", "handler_function"},
          comparator \in {"NULL", "key_ascending", "key_descending"} :
         LET l0 == list_empty(0)
             l1 == IF handler = "NULL" THEN l0 ELSE list_value_handler(l0, handler)
             l2 == IF comparator = "NULL" THEN l1
                   ELSE list_sort_sequence(l1, comparator)
         IN lh = [pc |-> "open", list |-> l2, inserted |-> <<>>, handled |-> {},
                  twice |-> FALSE, removals |-> 0, ret |-> NULL,
                  last |-> [op |-> "list_empty", pos |-> 0]]

\* list_insert(l, value) with a newly allocated value of the given key
ListInsert(key) ==
    /\ lh.pc = "open"
    /\ Len(lh.inserted) < MaxInserts
    /\ LET value == [id |-> Len(lh.inserted) + 1, key |-> key] IN
       lh' = [lh EXCEPT !.list = list_insert(lh.list, value),
                        !.inserted = Append(lh.inserted, value),
                        !.ret = [null |-> FALSE, list |-> lh.list.id],
                        !.last = [op |-> "list_insert", pos |-> 0]]
    /\ UNCHANGED <<solver_vars, ch, vh>>

\* list_inspect(l, pos)
ListInspect(pos) ==
    /\ lh.pc = "open"
    /\ lh' = [lh EXCEPT !.ret = list_inspect(lh.list, pos),
                        !.last = [op |-> "list_inspect", pos |-> pos]]
    /\ UNCHANGED <<solver_vars, ch, vh>>

\* list_remove(l, pos)
ListRemove(pos) ==
    /\ lh.pc = "open"
    /\ LET gone == list_remove_frees(lh.list, pos) IN
       lh' = [lh EXCEPT !.list = list_remove(lh.list, pos),
                        !.handled = lh.handled \cup gone,
                        !.twice = lh.twice \/ gone \cap lh.handled # {},
                        !.removals = IF InRange(lh.list, pos)
                                     THEN lh.removals + 1 ELSE lh.removals,
                        !.ret = list_remove_returns(lh.list, pos),
                        !.last = [op |-> "list_remove", pos |-> pos]]
    /\ UNCHANGED <<solver_vars, ch, vh>>

\* list_destroy(l)
ListDestroy ==
    /\ lh.pc = "open"
    /\ LET gone == list_destroy(lh.list) IN
       lh' = [lh EXCEPT !.pc = "destroyed",
                        !.list = [lh.list EXCEPT !.front = <<>>],
                        !.handled = lh.handled \cup gone,
                        !.twice = lh.twice \/ gone \cap lh.handled # {},
                        !.ret = NULL,
                        !.last = [op |-> "list_destroy", pos |-> 0]]
    /\ UNCHANGED <<solver_vars, ch, vh>>

NextList ==
    \/ \E key \in 1..MaxKey : ListInsert(key)
    \/ \E pos \in Positions : ListInspect(pos)
    \/ \E pos \in Positions : ListRemove(pos)
    \/ ListDestroy

SpecList == InitList /\ [][NextList]_vars

(* ----------------------- a caller of sudoku_cell.c -------------------- *)

\* ch holds the records the caller has (cells: a pointer to a Cell |-> its
\* position and the address of its eligible_values list) and the lists
\* (lists: an address |-> the list stored there); two records whose
\* eligible_values hold the same address share one list.

\* the Cell at pointer p of the caller state h, read through its pointers
Deref(h, p) ==
    [id |-> p, position |-> h.cells[p].position,
     eligible_values |-> h.lists[h.cells[p].ev]]

\* a duplicate whose eligible_values is the list of the original
DuplicateEligibleShared(original_ev, created_ev) == original_ev

\* the address in eligible_values of the record cell_duplicate returns: the
\* list cell_create made for it
DuplicateEligibleAt(original_ev, created_ev) == created_ev

\* positions <<grid, x, y>> of the records the caller creates
CellPositions == {<<0, 0, 0>>, <<4, 1, 2>>}

\* calls of cell_update_eligible_values the caller makes after cell_duplicate
MaxCellUpdates == 2

\* the caller has created one record with cell_create
InitCell ==
    /\ SolverIdle
    /\ lh = "idle"
    /\ vh = "idle"
    /\ \E pos \in CellPositions :
         LET c == cell_create(1, pos[1], pos[2], pos[3], GRID_SIZE) IN
         ch = [pc |-> "created",
               cells |-> (1 :> [position |-> c.position, ev |-> 1]),
               lists |-> (1 :> c.eligible_values),
               updates |-> 0,
               last |-> [op |-> "cell_create", cell |-> 1, val |-> 0]]

\* cell_update_eligible_values(c, remove_val) on the record at pointer p
CellUpdate(p, remove_val) ==
    /\ p \in DOMAIN ch.cells
    /\ ch.pc = "duplicated" => ch.updates < MaxCellUpdates
    /\ ch' = [ch EXCEPT
                !.lists[ch.cells[p].ev] =
                    cell_update_eligible_values(Deref(ch, p), remove_val).eligible_values,
                !.updates = IF ch.pc = "duplicated" THEN ch.updates + 1 ELSE 0,
                !.last = [op |-> "cell_update_eligible_values", cell |-> p,
                          val |-> remove_val]]
    /\ UNCHANGED <<solver_vars, lh, vh>>

\* new_cell = cell_duplicate(original_cell, GRID_SIZE)
CellDuplicate ==
    /\ ch.pc = "created"
    /\ LET new_cell == cell_duplicate(2, Deref(ch, 1), GRID_SIZE)
           ev == DuplicateEligibleAt(ch.cells[1].ev, 2)
       IN ch' = [ch EXCEPT
                    !.pc = "duplicated",
                    !.cells = ch.cells @@ (2 :> [position |-> new_cell.position,
                                                 ev |-> ev]),
                    !.lists = (ev :> new_cell.eligible_values) @@ ch.lists,
                    !.last = [op |-> "cell_duplicate", cell |-> 2, val |-> 0]]
    /\ UNCHANGED <<solver_vars, lh, vh>>

NextCell ==
    \/ \E p \in {1, 2}, remove_val \in Digits : CellUpdate(p, remove_val)
    \/ CellDuplicate

SpecCell == InitCell /\ [][NextCell]_vars

(* -------------------- main: read, solve, print ----------------------- *)

\* boards with the digit 1 three times in the first row
RefusedInputs ==
    {ProbeBoard(cells, 1) : cells \in {{<<0, 0>>, <<0, 1>>, <<0, 4>>},
                                       {<<0, 1>>, <<0, 4>>, <<0, 8>>}}}

\* a scope-consistent board without completion: three grids emptied but for
\* three digits
DeadEndBoard == Put(Put(Put(Sparse, 8, 5, 4), 5, 5, 3), 3, 3, 6)

\* the boards the user enters in an iteration of main's loop
MainBoards ==
    DenseInputs \cup PuzzleInputs \cup InconsistentInputs \cup TwiceInputs
        \cup RefusedInputs \cup {Base, TwiceBoard, Sparse, DeadEndBoard}

\* main before read_board_input; vh holds the board being entered, the
\* value of validate_board(board, false) and the value found of
\* print_result_func
InitMain ==
    /\ SolverIdle
    /\ lh = "idle"
    /\ ch = "idle"
    /\ vh \in [pc : {"request"}, board : MainBoards, valid : {FALSE},
               found : {FALSE}]

\* the board is refused, or the user does not confirm it, and enters a board
\* again
MainReadAgain ==
    /\ vh.pc = "validated"
    /\ \E b \in MainBoards :
         vh' = [vh EXCEPT !.pc = "request", !.board = b, !.valid = FALSE]
    /\ UNCHANGED <<solver_vars, lh, ch>>

\* read_board_input has returned: main calls solve_sudoku(board)
MainSolve ==
    /\ vh.pc = "returned"
    /\ pc = "idle"
    /\ input' = vh.board
    /\ board' = vh.board
    /\ elim_board' = vh.board
    /\ first_board' = vh.board
    /\ pc' = "setup"
    /\ UNCHANGED <<unknowns, stack, elret, btret, live, next_id,
                   double_destroy, alloc_failed, run, unit_vars>>

\* solve_sudoku has returned: print_result_func(board)
MainPrint ==
    /\ vh.pc = "returned"
    /\ pc = "done"
    /\ vh' = [vh EXCEPT !.pc = "printed",
                        !.found = validate_board(board, TRUE)]
    /\ UNCHANGED <<solver_vars, lh, ch>>

NextMain ==
    \/ ReadValidate
    \/ MainReadAgain
    \/ ReadConfirm
    \/ MainSolve
    \/ SolveSetup(FALSE)
    \/ SolveEliminate
    \/ BacktrackEnter(FALSE)
    \/ BacktrackTrial(FALSE)
    \/ BacktrackExhausted
    \/ BacktrackReturn
    \/ SolveFinish
    \/ MainPrint

SpecMain == InitMain /\ [][NextMain]_vars

(* ------------------------------ claims ------------------------------- *)

\* the zero positions of b, row by row
Zeros(b) ==
    SelectSeq([i \in 1..81 |-> <<(i - 1) \div 9, (i - 1) % 9>>],
              LAMBDA p : At(b, p[1], p[2]) = 0)

\* some assignment of the positions zs[k], zs[k + 1], ... makes b a solution
RECURSIVE Completes(_, _, _)
Completes(b, zs, k) ==
    IF k > Len(zs) THEN IsSolution(b)
    ELSE \E v \in 1..9 :
            /\ Fits(b, zs[k][1], zs[k][2], v)
            /\ Completes(Put(b, zs[k][1], zs[k][2], v), zs, k + 1)

\* an exhaustive search, independent of the solver: some assignment of the
\* zero positions of b makes it a solution
HasCompletion(b) == Completes(b, Zeros(b), 1)

\* C1: a solve of a scope-consistent input that returns with the board fully
\* populated returns a board in which every box, row and column holds each
\* digit 1..9 exactly once.
C1_SolvedBoardIsValid ==
    (pc = "done" /\ ScopeConsistent(input) /\ IsFull(board)) => IsSolution(board)

\* reached: a board with unknowns, completed by the backtracking search
C1_Witness ==
    /\ pc = "done"
    /\ btret = SUCCESS_RET
    /\ ~IsFull(elim_board)
    /\ IsFull(board)
    /\ IsSolution(board)

\* C2: when solve_sudoku returns, the board is fully populated exactly when
\* the (scope-consistent) input has a valid completion.
C2_SearchIsComplete ==
    (pc = "done" /\ ScopeConsistent(input)) => (IsFull(board) <=> HasCompletion(input))

\* reached: elimination reports a fixpoint, the input has no completion and
\* the search exhausts every value
C2_Witness ==
    /\ pc = "done"
    /\ elret = SUCCESS_RET
    /\ btret = STALEMATE_RET
    /\ ~IsFull(board)
    /\ ~HasCompletion(input)

\* C3: main's board holds, in every state of the solve, the input value at
\* every position whose input value is not zero.
C3_KnownsKept ==
    \A r \in Lines, c \in Lines :
        At(input, r, c) # 0 => At(board, r, c) = At(input, r, c)

\* reached: the solve returned having written to the board
C3_Witness ==
    /\ pc = "done"
    /\ board # input
    /\ \E r \in Lines, c \in Lines : At(input, r, c) # 0


\* the frame at the top of the stack is at its first statement: its pair
\* <<BoardOf(Depth), UnknownsOf(Depth)>> is what the last run of
\* solve_elimination_method left, and LastElret is what that run returned
\* (a frame is entered below the top level only after SUCCESS_RET)
AfterElimination ==
    pc = "backtrack" /\ Depth >= 1 /\ stack[Depth].pc = "entry"

LastElret == IF Depth = 1 THEN elret ELSE SUCCESS_RET

\* a second run on the pair changes neither the board, nor the records of
\* the sequence, nor their order, nor any eligible set
SecondRunChangesNothing ==
    LET e == solve_elimination_method(BoardOf(Depth), UnknownsOf(Depth)) IN
    /\ e.board = BoardOf(Depth)
    /\ e.unknowns = UnknownsOf(Depth)
    /\ e.destroyed = {}

\* C4: when the top-level solve_backtrack_method returns 0 the caller's
\* board is the board the top-level solve_elimination_method left, and a
\* frame's board is written only by the step with which the frame returns
\* SUCCESS_RET.
C4_FailureKeepsEliminationBoard ==
    /\ [](pc = "done" /\ btret = STALEMATE_RET => board = elim_board)
    /\ [][\A d \in 1..Len(stack) :
            (d <= Len(stack') /\ BoardOf(d)' # BoardOf(d)) =>
                (stack'[d].pc = "ret" /\ stack'[d].ret = SUCCESS_RET)]_vars

C4_Witness ==
    /\ pc = "done"
    /\ elret = SUCCESS_RET
    /\ btret = STALEMATE_RET
    /\ board = elim_board
    /\ next_id > NumUnknown(input) + 2

\* C5: once an allocation has failed, solve_sudoku is in run_time_error or
\* the innermost frame is returning -1; no frame returns 0 or 1 and
\* solve_sudoku does not return.
C5_AllocationFailureIsError ==
    alloc_failed =>
        \/ pc = "error" /\ btret \in {NO_RET, ERROR_RET}
        \/ /\ pc = "backtrack"
           /\ stack[Depth].pc = "ret"
           /\ stack[Depth].ret = ERROR_RET

C5_Witness ==
    /\ alloc_failed
    /\ pc = "error"
    /\ btret = ERROR_RET
    /\ next_id > NumUnknown(input) + 2

\* C6: a frame of solve_backtrack_method that is returning, with whatever
\* value, has destroyed its working cell record and its last
\* unknowns_duplicate.
C6_FrameDestroysItsDuplicates ==
    \A d \in 1..Len(stack) :
        stack[d].pc = "ret" =>
            ({stack[d].cell.id} \cup ListIds(stack[d].unknowns_duplicate))
                \cap live = {}

\* C7: when no allocation failed and solve_sudoku has returned, no list
\* and no cell record is live and none was destroyed twice.
C7_NothingLiveAfterSolve ==
    (pc = "done" /\ ~alloc_failed) => (live = {} /\ ~double_destroy)

C7_Witness ==
    /\ pc = "done"
    /\ ~alloc_failed
    /\ btret = STALEMATE_RET
    /\ next_id > 2 * NumUnknown(input) + 2
    /\ live = {}

C9_Terminates ==
    /\ [](Halted \/ StepEnabled)
    /\ <>(pc = "done"
            /\ (input = init_board => IsFull(board) /\ IsSolution(board)))

C9_Witness ==
    /\ pc = "done"
    /\ input \in PuzzleInputs
    /\ Len(stack) = 0
    /\ IsFull(board)
    /\ IsSolution(board)

\* C10 as stated: after any run of solve_elimination_method, a second run
\* on the pair it left changes nothing.
C10_Idempotent ==
    AfterElimination => SecondRunChangesNothing

\* C10: after a run of solve_elimination_method that returned 1, a second
\* run on the pair it left changes neither the board, nor the records of
\* the sequence, nor any eligible set.
C10_IdempotentAfterSuccess ==
    (AfterElimination /\ LastElret = SUCCESS_RET) => SecondRunChangesNothing

C10_Witness ==
    /\ AfterElimination
    /\ Depth = 1
    /\ elret = SUCCESS_RET
    /\ board # input
    /\ ~list_is_empty(unknowns)
    /\ SecondRunChangesNothing

\* the cell records the solver holds: those of the top-level sequence, and
\* the working record and the duplicated sequence of every frame
Records ==
    {unknowns.front[i] : i \in 1..Len(unknowns.front)}
      \cup UNION {{stack[d].cell}
                    \cup {stack[d].unknowns_duplicate.front[i] :
                            i \in 1..Len(stack[d].unknowns_duplicate.front)} :
                  d \in 1..Len(stack)}

\* the members of the eligible set of the record c
EligibleSet(c) ==
    {c.eligible_values.front[i] : i \in 1..Len(c.eligible_values.front)}

\* the record c holds no value the record o does not hold
Shrunk(c, o) ==
    /\ EligibleSet(c) \subseteq EligibleSet(o)
    /\ cell_eligible_values_length(c) <= cell_eligible_values_length(o)

\* C11: in every step of the solve, a record that is live after the step
\* and was held before it has lost values or kept them; a record created by
\* the step for a position of which a live record was held holds no value
\* that record did not hold (only a record created for a position without
\* record starts from the full set).
C11_EligibleSetsOnlyShrink ==
    [][\E held \in {{o \in Records : o.id \in live}} :
         \A c \in Records' :
           c.id \in live' =>
             IF c.id <= next_id
             THEN \E o \in held : o.id = c.id /\ Shrunk(c, o)
             ELSE \/ \A o \in held : o.position # c.position
                  \/ \E o \in held : o.position = c.position /\ Shrunk(c, o)]_vars

\* reached: inside a nested frame, a live record of a duplicated sequence
\* has lost values in an elimination pass
C11_Witness ==
    /\ pc = "backtrack"
    /\ Depth >= 2
    /\ \E c \in Records :
          /\ c.id \in live
          /\ c.id > NumUnknown(input) + 2
          /\ cell_eligible_values_length(c) \in 2..(GRID_SIZE - 1)

\* b is a valid complete assignment with exactly one position set to zero
CompleteButOne(b) == NumUnknown(b) = 1 /\ HasCompletion(b)

\* C12: on a complete valid board with one position emptied, the top-level
\* solve_elimination_method returns 1 having committed the missing digit and
\* emptied the sequence; solve_backtrack_method returns 1 from its first
\* frame without a working record, a duplicated sequence or a nested frame,
\* and the solve allocates nothing but the sequence and its one record.
C12_EliminationAloneSolves ==
    CompleteButOne(input) =>
        /\ pc \in {"backtrack", "done"} =>
              /\ elret = SUCCESS_RET
              /\ IsSolution(elim_board)
              /\ board = elim_board
              /\ list_is_empty(unknowns)
        /\ pc = "backtrack" =>
              /\ Depth = 1
              /\ stack[1].pc \in {"entry", "ret"}
              /\ stack[1].pc = "ret" => stack[1].ret = SUCCESS_RET
              /\ stack[1].cell = NULL_CELL
              /\ stack[1].unknowns_duplicate = NULL_LIST
        /\ pc = "done" => btret = SUCCESS_RET
        /\ next_id <= 2 * run

\* reached: the solve of a one-zero board returned with the digit written
C12_Witness ==
    /\ CompleteButOne(input)
    /\ pc = "done"
    /\ btret = SUCCESS_RET
    /\ board # input
    /\ IsSolution(board)
    /\ next_id = 2

\* C13 as stated: validate_board(board, false) is true exactly when no
\* non-zero digit occurs twice in a box, row or column,
\* validate_board(board, true) requires in addition that no position is
\* zero, and read_board_input returns only boards without repeated digit.
C13_ValidateRejectsRepeats ==
    /\ vh.pc \in {"validated", "returned", "printed"} =>
          (vh.valid <=> ScopeConsistent(vh.board))
    /\ vh.pc = "printed" =>
          (vh.found <=> (ScopeConsistent(vh.board) /\ IsFull(vh.board)))
    /\ vh.pc = "returned" => ScopeConsistent(vh.board)

\* the values of the list of the record c, front to back, strictly decrease
Descending(c) ==
    \A i, j \in 1..cell_eligible_values_length(c) :
        i < j => c.eligible_values.front[i] > c.eligible_values.front[j]

\* the frame at depth d has taken a value from its working record in this
\* step: the value is the largest the record held, the record lost exactly
\* that value, and the value is smaller than the one of the trial before
TrialTakesLargest(d) ==
    LET before == EligibleSet(stack[d].cell)
        v == stack'[d].val
    IN /\ v \in before
       /\ \A w \in before : w <= v
       /\ EligibleSet(stack'[d].cell) = before \ {v}
       /\ stack[d].val # 0 => v < stack[d].val

\* C14: a record just created by empty_unknowns_list holds 9, 8, .., 1 from
\* position 1 to position 9; every record held at any time holds its values
\* in strictly descending order; and every trial of a frame takes the
\* largest value left in its working record, smaller than the value of
\* the frame's trial before.
C14_TrialsDescend ==
    /\ [](pc = "eliminate" =>
            \A i \in 1..list_length(unknowns) :
                list_inspect(unknowns, i).eligible_values.front
                    = [k \in 1..GRID_SIZE |-> GRID_SIZE + 1 - k])
    /\ [](\A c \in Records : Descending(c))
    /\ [][\A d \in 1..Len(stack) :
            (d <= Len(stack') /\ stack[d].pc = "loop"
                /\ stack'[d].cell # stack[d].cell) => TrialTakesLargest(d)]_vars

\* reached: a frame waits for the recursive call of a trial that is not its
\* first: a larger value was eligible for the position of its record
C14_Witness ==
    /\ pc = "backtrack"
    /\ \E d \in 1..Len(stack) :
         /\ stack[d].pc = "call"
         /\ \E v \in Digits :
              /\ v > stack[d].val
              /\ Fits(BoardOf(d),
                      3 * (cell_grid_pos(stack[d].cell) \div 3) + cell_y_pos(stack[d].cell),
                      3 * (cell_grid_pos(stack[d].cell) % 3) + cell_x_pos(stack[d].cell),
                      v)

\* C15: the step of cell_duplicate leaves the original as it was and gives
\* a record with the position of the original and a list with the members
\* of the original's list (none when the original has none), stored apart
\* from it; afterwards a cell_update_eligible_values on either record
\* leaves the list of the other record as it was.
C15_DuplicateIsIndependentCopy ==
    /\ [][ch'.last.op = "cell_duplicate" =>
            /\ Deref(ch', 1) = Deref(ch, 1)
            /\ Deref(ch', 2).position = Deref(ch, 1).position
            /\ EligibleSet(Deref(ch', 2)) = EligibleSet(Deref(ch, 1))
            /\ cell_eligible_values_length(Deref(ch', 2))
                  = cell_eligible_values_length(Deref(ch, 1))
            /\ ch'.cells[2].ev # ch'.cells[1].ev]_vars
    /\ [][(ch.pc = "duplicated" /\ ch'.last.op = "cell_update_eligible_values") =>
            LET p == ch'.last.cell
                q == 3 - p
            IN /\ Deref(ch', q) = Deref(ch, q)
               /\ EligibleSet(Deref(ch', p))
                     = EligibleSet(Deref(ch, p)) \ {ch'.last.val}]_vars

\* reached: a narrowed record was duplicated, then a value both held was
\* removed from the duplicate only
C15_Witness ==
    /\ ch.pc = "duplicated"
    /\ ch.last.op = "cell_update_eligible_values"
    /\ ch.last.cell = 2
    /\ cell_eligible_values_length(Deref(ch, 1)) < GRID_SIZE
    /\ ch.last.val \in EligibleSet(Deref(ch, 1))
    /\ ch.last.val \notin EligibleSet(Deref(ch, 2))

\* the value passed to the list_insert call of this step
Inserted == lh'.inserted[Len(lh'.inserted)]

\* C16: with no comparator registered, a list_insert puts the new value at
\* position 1, in front of the values stored, which keep their order, and
\* the length grows by 1; after n insertions and no removal the value at
\* position i is the one inserted by call n + 1 - i.
C16_InsertAtFront ==
    /\ [][(lh'.last.op = "list_insert" /\ lh.list.sort_sequence = "NULL") =>
            /\ lh'.list.front = <<Inserted>> \o lh.list.front
            /\ list_length(lh'.list) = list_length(lh.list) + 1]_vars
    /\ []((lh.pc = "open" /\ lh.list.sort_sequence = "NULL" /\ lh.removals = 0) =>
            /\ list_length(lh.list) = Len(lh.inserted)
            /\ \A i \in 1..Len(lh.inserted) :
                  list_inspect(lh.list, i) = lh.inserted[Len(lh.inserted) + 1 - i])

\* reached: three insertions, then the oldest value read at position 3
C16_Witness ==
    /\ lh.list.sort_sequence = "NULL"
    /\ lh.removals = 0
    /\ Len(lh.inserted) = MaxInserts
    /\ lh.last = [op |-> "list_inspect", pos |-> MaxInserts]
    /\ lh.ret = lh.inserted[1]

\* the list is ordered by its comparator, and of two values the comparator
\* holds equal the one inserted later comes first
OrderedNewestFirst(l) ==
    \A i, j \in 1..Len(l.front) :
        i < j =>
            /\ Compare(l.sort_sequence, l.front[i], l.front[j]) <= 0
            /\ l.front[i].key = l.front[j].key => l.front[i].id > l.front[j].id

\* C17: with a comparator registered, a list_insert puts the new value
\* immediately before the first stored value e, from the front, with
\* cmp(new, e) <= 0, or behind the last value when there is none; the list
\* stays ordered by the comparator, a value equal to stored ones before them.
C17_InsertBeforeFirstNotSmaller ==
    /\ [][(lh'.last.op = "list_insert" /\ lh.list.sort_sequence # "NULL") =>
            \E k \in 1..(Len(lh.list.front) + 1) :
              /\ lh'.list.front = SubSeq(lh.list.front, 1, k - 1) \o <<Inserted>>
                                    \o SubSeq(lh.list.front, k, Len(lh.list.front))
              /\ \A j \in 1..(k - 1) :
                    Compare(lh.list.sort_sequence, Inserted, lh.list.front[j]) > 0
              /\ k <= Len(lh.list.front) =>
                    Compare(lh.list.sort_sequence, Inserted, lh.list.front[k]) <= 0]_vars
    /\ [](lh.list.sort_sequence # "NULL" => OrderedNewestFirst(lh.list))

\* reached: the last insertion put a value between a smaller value and a
\* value of its own key inserted earlier
C17_Witness ==
    /\ lh.list.sort_sequence = "key_ascending"
    /\ lh.last.op = "list_insert"
    /\ Len(lh.list.front) = MaxInserts
    /\ lh.list.front[2].id = MaxInserts
    /\ lh.list.front[1].key < lh.list.front[2].key
    /\ lh.list.front[2].key = lh.list.front[3].key

\* C18: a list_inspect or list_remove with a position below 1 or above the
\* number of stored values returns NULL, leaves the stored values and
\* their order as they were and does not call the value handler.
C18_OutOfRangeIsNull ==
    [][(lh'.last.op \in {"list_inspect", "list_remove"}
          /\ (lh'.last.pos < 1 \/ lh'.last.pos > Len(lh.list.front))) =>
         /\ lh'.ret = NULL
         /\ lh'.list = lh.list
         /\ lh'.handled = lh.handled
         /\ lh'.twice = lh.twice]_vars

\* reached: a list_remove past the end of a list with values and a handler
C18_Witness ==
    /\ lh.last.op = "list_remove"
    /\ lh.list.value_handler # "NULL"
    /\ Len(lh.list.front) >= 2
    /\ lh.last.pos = Len(lh.list.front) + 1
    /\ lh.ret = NULL
    /\ lh.handled = {}

\* the ids of the values in the sequence seq
IdsOf(seq) == {seq[i].id : i \in 1..Len(seq)}

\* C19: with a value handler registered, the handler has been called once
\* on every inserted value that is no longer stored and on no stored value;
\* an in-range list_remove takes out exactly the value at its position,
\* keeps the order of the others and calls the handler on that value;
\* after list_destroy the handler has been called once on every inserted
\* value.
C19_HandlerOncePerValue ==
    /\ [](lh.list.value_handler # "NULL" =>
            /\ ~lh.twice
            /\ IdsOf(lh.list.front) \cap lh.handled = {}
            /\ IdsOf(lh.inserted) \subseteq IdsOf(lh.list.front) \cup lh.handled
            /\ lh.pc = "destroyed" =>
                  (lh.list.front = <<>> /\ IdsOf(lh.inserted) \subseteq lh.handled))
    /\ [][(lh'.last.op = "list_remove" /\ lh.list.value_handler # "NULL"
             /\ lh'.last.pos \in 1..Len(lh.list.front)) =>
            LET pos == lh'.last.pos IN
            /\ lh'.list.front = SubSeq(lh.list.front, 1, pos - 1)
                                  \o SubSeq(lh.list.front, pos + 1, Len(lh.list.front))
            /\ lh'.handled = lh.handled \cup {lh.list.front[pos].id}]_vars

\* reached: three values inserted, the middle one removed, the list
\* destroyed
C19_Witness ==
    /\ lh.pc = "destroyed"
    /\ lh.list.value_handler # "NULL"
    /\ Len(lh.inserted) = MaxInserts
    /\ lh.removals = 1
    /\ ~lh.twice
    /\ IdsOf(lh.inserted) \subseteq lh.handled

\* the sequence of level d: the top-level sequence (d = 0) or the duplicate
\* made by the frame at depth d
SequenceAt(d) == IF d = 0 THEN unknowns ELSE stack[d].unknowns_duplicate

\* C20: no list and no record belongs to two live sequences or is the
\* working record of a frame; and while a frame is in its loop (trying a
\* value, or waiting for the recursive call) no step changes its sequence,
\* and no step changes its board except the one in which it takes SUCCESS_RET
\* from the recursive call.
C20_BranchesAreIsolated ==
    /\ [](\A d, e \in 0..Len(stack) :
            (d < e /\ SequenceAt(d).id \in live /\ SequenceAt(e).id \in live) =>
                ListIds(SequenceAt(d)) \cap ListIds(SequenceAt(e)) = {})
    /\ [](\A d \in 0..Len(stack), e \in 1..Len(stack) :
            (SequenceAt(d).id \in live /\ stack[e].cell.id \in live) =>
                stack[e].cell.id \notin ListIds(SequenceAt(d)))
    /\ [][\A d \in 1..Len(stack) :
            (d <= Len(stack') /\ stack[d].pc \in {"loop", "call"}) =>
                /\ UnknownsOf(d)' = UnknownsOf(d)
                /\ BoardOf(d)' # BoardOf(d) =>
                      (stack'[d].pc = "ret" /\ stack'[d].ret = SUCCESS_RET)]_vars

\* reached: the first frame is back in its loop after a trial that did not
\* return Solved and that went through a nested frame or a second trial;
\* its board is the one elimination left and differs from its duplicate
C20_Witness ==
    /\ pc = "backtrack"
    /\ Depth = 1
    /\ stack[1].pc = "loop"
    /\ stack[1].val # 0
    /\ board = elim_board
    /\ stack[1].board_duplicate # board
    /\ ~list_is_empty(unknowns)
    /\ next_id > 2 * NumUnknown(input) + 2

\* the sequences that are allocated: the top-level one and the duplicates
\* of the frames
LiveLevels == {d \in 0..Len(stack) : SequenceAt(d).id \in live}

\* every record of the sequence l has an eligible value
MembersNonEmpty(l) ==
    \A i \in 1..list_length(l) : cell_eligible_values_length(l.front[i]) > 0

FramesFrom(d) == d..Len(stack)

\* C22: while the sequence handed to a frame of solve_backtrack_method holds
\* a record without eligible value, neither that frame nor a frame below it
\* returns SUCCESS_RET; and when the top-level solve_elimination_method
\* returned 0, no frame returns SUCCESS_RET and solve_sudoku returns with
\* solve_backtrack_method having returned 0, the board not full and equal to
\* the board elimination left.
C22_EmptyRecordNeverSolved ==
    /\ \A d \in 1..Len(stack) :
          (UnknownsOf(d).id \in live /\ ~MembersNonEmpty(UnknownsOf(d))) =>
              \A e \in FramesFrom(d) : stack[e].ret # SUCCESS_RET
    /\ elret = STALEMATE_RET =>
          /\ \A d \in 1..Len(stack) : stack[d].ret # SUCCESS_RET
          /\ btret # SUCCESS_RET
          /\ pc = "done" =>
                (btret = STALEMATE_RET /\ ~IsFull(board) /\ board = elim_board)

\* reached: elimination returned 0 having committed values, the search went
\* through trials on duplicates and solve_sudoku returned
C22_Witness ==
    /\ pc = "done"
    /\ elret = STALEMATE_RET
    /\ btret = STALEMATE_RET
    /\ board # input
    /\ board = elim_board
    /\ ~IsFull(board)
    /\ next_id > NumUnknown(input) + 2

\* the sequence l holds exactly one record for each zero position of the
\* board b and no record for another position
Paired(b, l) ==
    \A grid \in Grids, y \in Ys, x \in Xs :
        Cardinality({i \in 1..list_length(l) :
                        l.front[i].position = [grid |-> grid, x |-> x, y |-> y]})
            = IF b[grid][y][x] = 0 THEN 1 ELSE 0

\* the step is an iteration of the while loop of the frame at depth d that
\* has run solve_elimination_method: the working record has lost the value
\* put on trial
IsTrial(d) ==
    /\ d = Len(stack)
    /\ stack[d].pc = "loop"
    /\ Len(stack') >= d
    /\ stack'[d].cell # stack[d].cell

\* the pair the iteration hands to solve_elimination_method
TrialBoard(d) ==
    BoardWrite(duplicate_board(BoardOf(d)), cell_grid_pos(stack[d].cell),
               cell_y_pos(stack[d].cell), cell_x_pos(stack[d].cell),
               stack'[d].val)
TrialSequence(d) == duplicate_unknown_list(UnknownsOf(d), next_id + 1)

\* C23: the sequence holds exactly one record for each zero position of its
\* board and none for another position: when solve_sudoku calls
\* solve_elimination_method, on every entry to solve_backtrack_method (at the
\* top level, the return from that call), and in every trial both for the
\* pair handed to solve_elimination_method and for the pair it returns.
C23_PairAdvancesTogether ==
    /\ [](pc = "eliminate" => Paired(board, unknowns))
    /\ [](AfterElimination => Paired(BoardOf(Depth), UnknownsOf(Depth)))
    /\ [][\A d \in 1..Len(stack) :
            IsTrial(d) =>
                /\ Paired(TrialBoard(d), TrialSequence(d))
                /\ Paired(stack'[d].board_duplicate,
                          stack'[d].unknowns_duplicate)]_vars

\* reached: a nested frame is entered with a pair on which elimination has
\* committed values beyond the trial value and left records
C23_Witness ==
    /\ AfterElimination
    /\ Depth >= 2
    /\ ~list_is_empty(UnknownsOf(Depth))
    /\ list_length(UnknownsOf(Depth)) + 1 < list_length(UnknownsOf(Depth - 1))
    /\ Paired(BoardOf(Depth), UnknownsOf(Depth))

\* the record c has at least two eligible values and none of them is on the
\* board b in the box, the row or the column of c
AtFixpoint(b, c) ==
    /\ cell_eligible_values_length(c) >= 2
    /\ \A v \in EligibleSet(c) :
          Fits(b, 3 * (cell_grid_pos(c) \div 3) + cell_y_pos(c),
               3 * (cell_grid_pos(c) % 3) + cell_x_pos(c), v)

\* the ids of the records of l, front to back
IdSeq(l) == [i \in 1..list_length(l) |-> l.front[i].id]

\* A run of solve_elimination_method followed iteration by iteration:
\* begun is the sequence as it was when the pass began, pending lists the
\* records of begun that the pass has not visited yet, ok tells that every
\* iteration so far visited the first pending record and that every pass
\* that ended had visited them all, prompt tells that every iteration so far
\* returned 0 exactly when the eligible set of the record it visited was
\* empty before or after update_constraints.
FollowStart(b, l) ==
    [st |-> EliminationStart(b, l), begun |-> l, pending |-> <<>>, ok |-> TRUE,
     prompt |-> TRUE]

FollowDone(t) == EliminationDone(t.st)

\* the record visited by the next iteration has no eligible value, or has
\* none once the digits of its box, row and column are removed
FoundEmpty(st) ==
    LET c == list_inspect(st.unknowns, st.i + 1) IN
    \/ cell_eligible_values_length(c) = 0
    \/ cell_eligible_values_length(
          update_constraints(st.board, c, cell_grid_pos(c), cell_x_pos(c),
                             cell_y_pos(c))) = 0

FollowStep(t) ==
    LET nx == EliminationStep(t.st) IN
    IF t.st.i >= t.st.unknowns_size
    THEN [st |-> nx,
          begun |-> IF EliminationDone(nx) THEN t.begun ELSE nx.unknowns,
          pending |-> IF EliminationDone(nx) THEN <<>> ELSE IdSeq(nx.unknowns),
          ok |-> t.ok /\ t.pending = <<>>,
          prompt |-> t.prompt]
    ELSE [st |-> nx,
          begun |-> t.begun,
          pending |-> IF t.pending = <<>> THEN <<>> ELSE Tail(t.pending),
          ok |-> /\ t.ok
                 /\ t.pending # <<>>
                 /\ Head(t.pending) = list_inspect(t.st.unknowns, t.st.i + 1).id,
          prompt |-> /\ t.prompt
                     /\ nx.ret = (IF FoundEmpty(t.st) THEN 0 ELSE NO_RET)]

\* in the run of solve_elimination_method on the pair <<b, l>>, every pass
\* visits the records it began with once each, front to back (up to the
\* record at which the run returns 0)
EveryRecordOncePerPass(b, l) ==
    While(FollowStep, FollowDone, FollowStart(b, l)).ok

\* C24: a pair for which solve_elimination_method returned 1 has only
\* records with at least two eligible values, none of them on the board in
\* the box, row or column of the record; and in every run of
\* solve_elimination_method, at the top level and in a trial, each pass visits
\* each record it began with exactly once.
C24_FixpointPostcondition ==
    /\ []((AfterElimination /\ LastElret = SUCCESS_RET) =>
            \A i \in 1..list_length(UnknownsOf(Depth)) :
                AtFixpoint(BoardOf(Depth), UnknownsOf(Depth).front[i]))
    /\ [](pc = "eliminate" => EveryRecordOncePerPass(board, unknowns))
    /\ [][\A d \in 1..Len(stack) :
            IsTrial(d) =>
                EveryRecordOncePerPass(TrialBoard(d), TrialSequence(d))]_vars

\* reached: the top-level run returned 1 after passes that committed
\* values, and left records; the search has started
C24_Witness ==
    /\ AfterElimination
    /\ Depth = 1
    /\ elret = SUCCESS_RET
    /\ list_length(unknowns) >= 2
    /\ list_length(unknowns) < NumUnknown(input)
    /\ \A i \in 1..list_length(unknowns) : AtFixpoint(board, unknowns.front[i])

\* the last n elements of seq
Suffix(seq, n) == SubSeq(seq, Len(seq) - n + 1, Len(seq))

\* What the run of solve_elimination_method on the pair <<b, l>> returns:
\* 0 from the first iteration that finds an eligible set empty, with that
\* record still in the sequence and the records behind it as they were when
\* the pass began; 1 otherwise, after a pass that removed no record, whether
\* records remain or not.
ReturnsAsSpecified(b, l) ==
    \E t \in {While(FollowStep, FollowDone, FollowStart(b, l))} :
      LET now == t.st.unknowns.front
          behind == Len(now) - (t.st.i + 1)
      IN /\ t.prompt
         /\ t.st.ret \in {STALEMATE_RET, SUCCESS_RET}
         /\ t.st.ret = STALEMATE_RET =>
               /\ behind >= 0
               /\ cell_eligible_values_length(now[t.st.i + 1]) = 0
               /\ Suffix(now, behind) = Suffix(t.begun.front, behind)
         /\ t.st.ret = SUCCESS_RET =>
               /\ ~t.st.is_modified
               /\ IdSeq(t.st.unknowns) = IdSeq(t.begun)

\* C25: solve_elimination_method returns 0 from the iteration that finds the
\* eligible set of a record empty, before or after update_constraints,
\* leaving the records behind it untouched; it returns 1 after a pass that
\* commits nothing, with the sequence empty or not; this at the top level and
\* in every trial.
C25_ReturnValues ==
    /\ [](pc = "eliminate" => ReturnsAsSpecified(board, unknowns))
    /\ [][\A d \in 1..Len(stack) :
            IsTrial(d) =>
                ReturnsAsSpecified(TrialBoard(d), TrialSequence(d))]_vars

\* reached: the top-level run returned 1 and left records (stalemate), and
\* the run of a trial returned 1 with its sequence empty, in a search in
\* which some frame is at its second trial or later
C25_Witness ==
    /\ AfterElimination
    /\ Depth >= 2
    /\ elret = SUCCESS_RET
    /\ list_is_empty(UnknownsOf(Depth))
    /\ ~list_is_empty(unknowns)
    /\ \E d \in 1..(Depth - 1) :
          Cardinality(EligibleSet(stack[d].cell)) + 1
              < Cardinality(EligibleSet(cell_create(0, 0, 0, 0, GRID_SIZE)))

\* the zero positions of b in the order in which the loops of
\* empty_unknowns_list meet them: grid, then y, then x
ScanZeros(b) ==
    SelectSeq([k \in 1..(GRID_SIZE * Y_SIZE * X_SIZE) |->
                  [grid |-> (k - 1) \div (Y_SIZE * X_SIZE),
                   x |-> (k - 1) % X_SIZE,
                   y |-> ((k - 1) % (Y_SIZE * X_SIZE)) \div X_SIZE]],
              LAMBDA p : b[p.grid][p.y][p.x] = 0)

\* the zero positions of b row by row of the 9 x 9 board
RowZeros(b) ==
    [i \in 1..Len(Zeros(b)) |->
        [grid |-> 3 * (Zeros(b)[i][1] \div 3) + (Zeros(b)[i][2] \div 3),
         x |-> Zeros(b)[i][2] % 3,
         y |-> Zeros(b)[i][1] % 3]]

\* the positions of the records of l, front to back
PositionSeq(l) == [i \in 1..list_length(l) |-> l.front[i].position]

Reverse(seq) == [i \in 1..Len(seq) |-> seq[Len(seq) + 1 - i]]

\* C26 as stated: the sequence empty_unknowns_list returns lists the zero
\* positions of the board in the order of their creation, the first one at
\* position 1 (with the rows read box by box as the loops do, or across the
\* 9 x 9 board).
C26_CreationOrder ==
    pc = "eliminate" =>
        \/ PositionSeq(unknowns) = ScanZeros(board)
        \/ PositionSeq(unknowns) = RowZeros(board)

\* C26: the sequence empty_unknowns_list returns lists the zero positions of
\* the board in the reverse of the order in which its loops (grid, then y,
\* then x) meet them: position 1 holds the record created last.
C26_ReverseCreationOrder ==
    pc = "eliminate" => PositionSeq(unknowns) = Reverse(ScanZeros(board))

\* reached: a sequence of three records or more over several grids
C26_Witness ==
    /\ pc = "eliminate"
    /\ list_length(unknowns) >= 3
    /\ cell_grid_pos(list_inspect(unknowns, 1))
          > cell_grid_pos(list_inspect(unknowns, list_length(unknowns)))
    /\ PositionSeq(unknowns) = Reverse(ScanZeros(board))

\* the record c is a copy of the record o: same position, same eligible values
SameCell(c, o) ==
    /\ c.position = o.position
    /\ EligibleSet(c) = EligibleSet(o)
    /\ cell_eligible_values_length(c) = cell_eligible_values_length(o)

\* C27 as stated: the sequence duplicate_unknown_list returns has the length
\* of the original and, at each position i, a copy of the record the original
\* has at position i.
C27_DuplicateKeepsOrder ==
    [][\A d \in 1..Len(stack) :
         IsTrial(d) =>
            /\ list_length(TrialSequence(d)) = list_length(UnknownsOf(d))
            /\ \A i \in 1..list_length(UnknownsOf(d)) :
                  SameCell(list_inspect(TrialSequence(d), i),
                           list_inspect(UnknownsOf(d), i))]_vars

\* C27: the sequence duplicate_unknown_list returns has the length n of the
\* original and, at each position i, a copy of the record the original has at
\* position n + 1 - i: the duplicate is the original in reverse order, and
\* its first record is a copy of the last record of the original.
C27_DuplicateReversesOrder ==
    [][\A d \in 1..Len(stack) :
         IsTrial(d) =>
            \E dup \in {TrialSequence(d)} :
            /\ list_length(dup) = list_length(UnknownsOf(d))
            /\ \A i \in 1..list_length(UnknownsOf(d)) :
                  SameCell(list_inspect(dup, i),
                           list_inspect(UnknownsOf(d),
                                        list_length(UnknownsOf(d)) + 1 - i))]_vars

\* reached: a frame has run a trial on the duplicate of a sequence of two
\* records or more, some of them narrowed
C27_Witness ==
    /\ pc = "backtrack"
    /\ Depth = 1
    /\ stack[1].pc \in {"loop", "call"}
    /\ stack[1].val # 0
    /\ list_length(unknowns) >= 2
    /\ \E i \in 1..list_length(unknowns) :
          cell_eligible_values_length(list_inspect(unknowns, i)) < GRID_SIZE
    /\ PositionSeq(duplicate_unknown_list(unknowns, next_id + 1))
          = Reverse(PositionSeq(unknowns))

\* the 27 scopes as sets of positions <<grid, y, x>> of the board array
ScopeCells ==
    {{<<3 * (p[1] \div 3) + (p[2] \div 3), p[1] % 3, p[2] % 3>> : p \in s} :
        s \in AllScopes}

\* no non-zero digit occurs twice in a box, row or column of b: in every
\* scope the non-zero positions are as many as the non-zero digits
Consistent(b) ==
    \A s \in ScopeCells :
        Cardinality({p \in s : b[p[1]][p[2]][p[3]] # 0})
            = Cardinality({b[p[1]][p[2]][p[3]] : p \in s} \ {0})

\* C28 as stated: for a scope-consistent input, the caller's board and the
\* board_duplicate of every frame, after the trial commit and after the
\* commits of elimination, have no non-zero digit twice in a box, row or
\* column.
C28_BoardsStayConsistent ==
    /\ [](Consistent(input) =>
            /\ Consistent(board)
            /\ \A d \in 1..Len(stack) : Consistent(stack[d].board_duplicate))
    /\ [][\A d \in 1..Len(stack) :
            (Consistent(input) /\ IsTrial(d)) =>
                \E b \in {TrialBoard(d)} : Consistent(b)]_vars

\* C28: for a scope-consistent input, the caller's board has in every state
\* no non-zero digit twice in a box, row or column; and when the top-level
\* solve_elimination_method returned 1, neither has the board_duplicate of
\* any frame, after the trial commit and after the commits of elimination.
C28_ConsistentAfterFixpoint ==
    /\ [](Consistent(input) =>
            /\ Consistent(board)
            /\ elret # STALEMATE_RET =>
                  \A d \in 1..Len(stack) : Consistent(stack[d].board_duplicate))
    /\ [][\A d \in 1..Len(stack) :
            (Consistent(input) /\ elret # STALEMATE_RET /\ IsTrial(d)) =>
                \E b \in {TrialBoard(d)} : Consistent(b)]_vars

\* reached: after a top-level fixpoint, a nested frame has made a trial
\* commit and elimination has committed further values on its board
C28_Witness ==
    /\ pc = "backtrack"
    /\ elret = SUCCESS_RET
    /\ Depth >= 2
    /\ stack[2].val # 0
    /\ NumUnknown(stack[2].board_duplicate) + 1 < NumUnknown(stack[1].board_duplicate)
    /\ Consistent(stack[2].board_duplicate)
    /\ board # input

\* the frame at depth d has not returned: its board is the one it received
\* (see C20), which by C23 had one zero position for each record of the
\* sequence it received
Running(d) == stack[d].pc \in {"entry", "loop", "call"}

\* a frame entered by a recursive call receives a sequence with fewer
\* records than the sequence its caller received
CallsGetShorter ==
    \A d \in 2..Len(stack) :
        (stack[d].pc = "entry" /\ Running(d - 1)) =>
            list_length(UnknownsOf(d)) < NumUnknown(BoardOf(d - 1))

C30_FoundOnlyIfSolution ==
    (vh.pc = "printed" /\ vh.found) =>
        (IsFull(board) /\ IsSolution(board))

====
